---- MODULE Spec2Model ----
(***************************************************************************)
(* Model of the health package (Talento90/go-health): the checker registry *)
(* guarded by the instance mutex, and the aggregation round of GetStatus   *)
(* (checkersAsync fanning out one check goroutine per registered checker,  *)
(* each racing the checker's Check against its own time.After timer).      *)
(*                                                                         *)
(* Time is discrete, one unit is 100ms.  Computation steps take no time:   *)
(* only a checker's Check and a pending timer let time pass, so Tick is    *)
(* enabled only when no goroutine has a step it can take at once.          *)
(***************************************************************************)
EXTENDS Integers, Naturals, Sequences, FiniteSets, TLC

\* ---------------------------------------------------------------- bounds
MaxRounds == 2
\* width of the machine words the memory statistics are kept in (64 in Go)
WordBits == 8

\* ------------------------------------------------------- program constants
\* time.Second, in units of 100ms
Second == 10

\* ------------------------------------------------------------ the callers
Callers == {"p1", "p2"}
NoOne == "free"
\* the owning service registers checkers and shuts down; the handler of the
\* status endpoint asks for the status
Registrars == {"p1"}
Requesters == {"p2"}

\* names the callers of the general specification register
RegNames == {"checker1", "checker2"}

\* ------------------------------------------------------------ the checkers
\* mockChecker instances: sleepTime in units of 100ms, err, and whether
\* Check never returns.
NoErr == "nil"

mockChecker(sleepTime, err, hangs) ==
    [sleepTime |-> sleepTime, err |-> err, hangs |-> hangs]

\* the instances of health_test.go, and two more a caller may register:
\* one whose Check takes exactly the short timeout, one that never returns
Behaviour ==
    [ m0     |-> mockChecker(0, NoErr, FALSE),
      e0     |-> mockChecker(0, "Service unreachable", FALSE),
      m300   |-> mockChecker(3, NoErr, FALSE),
      m5000  |-> mockChecker(50, NoErr, FALSE),
      e500   |-> mockChecker(5, "Error connections to db", FALSE),
      m200   |-> mockChecker(2, NoErr, FALSE),
      hang   |-> mockChecker(0, NoErr, TRUE),
      heal   |-> mockChecker(5, "Service unreachable", FALSE) ]

\* checkers with a state of their own: heal checks a dependency that is down
\* at its first Check and back at every later one
Stateful == {"heal"}

\* what the n-th Check of checker c (counted from 0) does
BehaviourAt(c, n) ==
    IF c \in Stateful /\ n > 0 THEN mockChecker(0, NoErr, FALSE) ELSE Behaviour[c]

\* the instances callers register in the general specification
RegCheckers == {"m0", "e500", "m200", "hang"}

\* Options.CheckersTimeout values passed to New (0 is "unset")
TimeoutOpts == {0, 2}

VARIABLES
    checkers,     \* h.checkers: name -> Checker
    isShutdown,   \* h.isShutdown
    timeout,      \* h.options.CheckersTimeout
    mutex,        \* h.mutex: its holder, or NoOne
    pc,           \* per caller: where it is
    op,           \* per caller: the call it is making
    rid,          \* per caller: the channel (round) of its checkersAsync
    results,      \* per caller: local results of checkersAsync
    i,            \* per caller: local i of checkersAsync
    elapsed,      \* per caller: time since its round started
    returned,     \* per caller: the *Status its last GetStatus returned
    snap,         \* per caller: h.checkers as its last GetStatus read it
    nrounds,      \* number of completion channels made so far
    chans,        \* per round: the completion channel ch
    g,            \* per <<round, name>>: the check goroutine and its inner one
    leaked,       \* inner goroutines blocked for ever on `done <- ...`
    hung,         \* inner goroutines left in a Check that never returns
    panicked,     \* a goroutine panicked (send on / close of a closed channel)
    newOpt,       \* the Options.CheckersTimeout New was given
    http,         \* per caller: its ServeHTTP call and the response written
    ncalls,       \* per stateful checker: how often its Check was invoked
    after,        \* per caller: time left on the timer of its select loop
    mem,          \* the memory statistics and their difference
    service       \* h.name and h.startTime

vars == << checkers, isShutdown, timeout, mutex, pc, op, rid, results, i,
           elapsed, returned, snap, nrounds, chans, g, leaked, hung,
           panicked, newOpt, service, http, ncalls, after, mem >>

\* what the registry and the aggregation round of GetStatus never touch
otherVars == << newOpt, service, http, after, mem >>

callerVars == << pc, op, rid, results, i, elapsed, returned, snap >>
roundVars == << nrounds, chans, g, leaked, hung >>

EmptyMap == << >>
NoOp == [kind |-> "none"]
NoStatus == [valid |-> FALSE]
\* no ServeHTTP call made, nothing written to the ResponseWriter
NoBody == [written |-> FALSE]
NoRequest == [stage |-> "none", method |-> "", code |-> 0, body |-> NoBody]
\* runtime memory statistics not read
NoMem == [read |-> FALSE]

\* New: name: name, startTime: time.Now(), with the name the tests pass
NewService == [name |-> "service_test", startTime |-> 0]

\* faulty variant: the option is kept as given, zero included
NewAsGiven(opt) == opt

\* New: a zero CheckersTimeout becomes time.Second
New(opt) == IF opt = 0 THEN Second ELSE opt

Init ==
    /\ checkers = EmptyMap
    /\ isShutdown = FALSE
    /\ newOpt \in TimeoutOpts
    /\ timeout = New(newOpt)
    /\ service = NewService
    /\ mutex = NoOne
    /\ pc = [p \in Callers |-> "idle"]
    /\ op = [p \in Callers |-> NoOp]
    /\ rid = [p \in Callers |-> 0]
    /\ results = [p \in Callers |-> EmptyMap]
    /\ i = [p \in Callers |-> 0]
    /\ elapsed = [p \in Callers |-> 0]
    /\ returned = [p \in Callers |-> NoStatus]
    /\ snap = [p \in Callers |-> EmptyMap]
    /\ nrounds = 0
    /\ chans = EmptyMap
    /\ g = EmptyMap
    /\ leaked = 0
    /\ hung = 0
    /\ panicked = FALSE
    /\ http = [p \in Callers |-> NoRequest]
    /\ ncalls = [c \in Stateful |-> 0]
    /\ after = [p \in Callers |-> 0]
    /\ mem = NoMem


\* ------------------------------------------------------------ small helpers
\* faulty variant: the store keeps the entry a key already has
MapStoreIfAbsent(m, k, v) ==
    [x \in (DOMAIN m) \cup {k} |-> IF x \in DOMAIN m THEN m[x] ELSE v]

\* m[k] = v on a Go map
MapStore(m, k, v) == [x \in (DOMAIN m) \cup {k} |-> IF x = k THEN v ELSE m[x]]

\* a map without the keys in ks
MapDrop(m, ks) == [x \in (DOMAIN m) \ ks |-> m[x]]

\* the caller's round is in flight
InRound(p) == pc[p] = "collect"

\* ----------------------------------------------------- the callers' calls
\* A caller calls an operation and reaches h.mutex.Lock(); the *Status of
\* its previous GetStatus is dropped.
Call(p, o) ==
    /\ ~panicked
    /\ pc[p] = "idle"
    /\ pc' = [pc EXCEPT ![p] = "lock"]
    /\ op' = [op EXCEPT ![p] = o]
    /\ returned' = [returned EXCEPT ![p] = NoStatus]
    /\ snap' = [snap EXCEPT ![p] = EmptyMap]
    /\ UNCHANGED << otherVars, ncalls, checkers, isShutdown, timeout, mutex, rid, results, i, elapsed,
                    roundVars, panicked >>

CallRegisterChecker(p, name, c) ==
    Call(p, [kind |-> "RegisterChecker", name |-> name, check |-> c])

CallShutdown(p) == Call(p, [kind |-> "Shutdown"])

CallGetStatus(p) == Call(p, [kind |-> "GetStatus"])

\* ------------------------------------------------------- RegisterChecker
\* faulty variant: the registry is written without taking the mutex
RegisterCheckerNoLock(p) ==
    /\ ~panicked
    /\ pc[p] = "lock"
    /\ op[p].kind = "RegisterChecker"
    /\ checkers' = [x \in (DOMAIN checkers) \cup {op[p].name} |->
                       IF x = op[p].name THEN op[p].check ELSE checkers[x]]
    /\ pc' = [pc EXCEPT ![p] = "idle"]
    /\ op' = [op EXCEPT ![p] = NoOp]
    /\ UNCHANGED << otherVars, ncalls, isShutdown, timeout, mutex, rid, results, i, elapsed, returned,
                    snap, nrounds, chans, g, leaked, hung, panicked >>

\* faulty variant: the registry is replaced by one holding the new entry only
RegisterCheckerAlone(p) ==
    /\ ~panicked
    /\ pc[p] = "lock"
    /\ op[p].kind = "RegisterChecker"
    /\ mutex = NoOne
    /\ checkers' = [x \in {op[p].name} |-> op[p].check]
    /\ pc' = [pc EXCEPT ![p] = "idle"]
    /\ op' = [op EXCEPT ![p] = NoOp]
    /\ UNCHANGED << otherVars, ncalls, isShutdown, timeout, mutex, rid, results, i,
                    elapsed, returned, snap, roundVars, panicked >>

\* Lock; h.checkers[name] = check; Unlock.
RegisterChecker(p) ==
    /\ ~panicked
    /\ pc[p] = "lock"
    /\ op[p].kind = "RegisterChecker"
    /\ mutex = NoOne
    /\ checkers' = MapStore(checkers, op[p].name, op[p].check)
    /\ pc' = [pc EXCEPT ![p] = "idle"]
    /\ op' = [op EXCEPT ![p] = NoOp]
    /\ UNCHANGED << otherVars, ncalls, isShutdown, timeout, mutex, rid, results, i, elapsed, returned,
                    snap, roundVars, panicked >>

\* -------------------------------------------------------------- Shutdown
\* faulty variant: the call flips the flag instead of setting it
ShutdownToggle(p) ==
    /\ ~panicked
    /\ pc[p] = "lock"
    /\ op[p].kind = "Shutdown"
    /\ mutex = NoOne
    /\ isShutdown' = ~isShutdown
    /\ pc' = [pc EXCEPT ![p] = "idle"]
    /\ op' = [op EXCEPT ![p] = NoOp]
    /\ UNCHANGED << otherVars, ncalls, checkers, timeout, mutex, rid, results, i,
                    elapsed, returned, snap, roundVars, panicked >>

\* Lock; h.isShutdown = true; Unlock.
Shutdown(p) ==
    /\ ~panicked
    /\ pc[p] = "lock"
    /\ op[p].kind = "Shutdown"
    /\ mutex = NoOne
    /\ isShutdown' = TRUE
    /\ pc' = [pc EXCEPT ![p] = "idle"]
    /\ op' = [op EXCEPT ![p] = NoOp]
    /\ UNCHANGED << otherVars, ncalls, checkers, timeout, mutex, rid, results, i, elapsed, returned,
                    snap, roundVars, panicked >>

\* ----------------------------------------------------------------- check
\* faulty variant: the CHECKED result drops the value Check returned
CheckedResultNoError(name, r, since) ==
    [name |-> name, Status |-> "CHECKED", Error |-> NoErr, ResponseTime |-> since]

\* CheckerResult{name, Status: "CHECKED", Error: r, ResponseTime: since start}
CheckedResult(name, r, since) ==
    [name |-> name, Status |-> "CHECKED", Error |-> r, ResponseTime |-> since]

\* faulty variant: the TIMEOUT result is built without its name
TimeoutResultNoName(name, since) ==
    [name |-> "", Status |-> "TIMEOUT", Error |-> NoErr, ResponseTime |-> since]

\* faulty variant: the TIMEOUT result carries an error of its own
TimeoutResultWithError(name, since) ==
    [name |-> name, Status |-> "TIMEOUT", Error |-> "timeout", ResponseTime |-> since]

\* CheckerResult{name, Status: "TIMEOUT", ResponseTime: since start}; Error
\* keeps its zero value
TimeoutResult(name, since) ==
    [name |-> name, Status |-> "TIMEOUT", Error |-> NoErr, ResponseTime |-> since]

\* faulty variant: the duration is scaled once more before the timer is armed
TimeAfterScaled(d) == d * 2

\* time.After(d): the time left on the timer a check goroutine arms
TimeAfter(d) == d

\* time.Since(start) of a check goroutine whose timer has `timer` left
Since(timer) == timeout - timer

\* how often Check of c has been invoked so far (kept for stateful checkers)
Calls(c) == IF c \in Stateful THEN ncalls[c] ELSE 0

\* go check(ch, timeout, n, c), run up to its select: the goroutine starts
\* the inner goroutine, which calls c.Check(), and arms its timer.
GoCheck(c) ==
    [outer |-> "select", timer |-> TimeAfter(timeout), inner |-> "running",
     rem |-> BehaviourAt(c, Calls(c)).sleepTime, check |-> c,
     ret |-> BehaviourAt(c, Calls(c)).err]

\* faulty variant: the goroutines capture the loop variable c, so all of them run
\* the checker of the last iteration
SpawnCaptured(r, cs) ==
    [k \in {r} \X DOMAIN cs |-> GoCheck(cs[CHOOSE n \in DOMAIN cs : TRUE])]

\* for n, c := range h.checkers { go check(ch, ..., n, c) } for the round
\* whose channel is r
Spawn(r, cs) == [k \in {r} \X DOMAIN cs |-> GoCheck(cs[k[2]])]

\* The check goroutine has returned and its inner goroutine has returned too,
\* or can never take another step: blocked on `done <- ...`, which nobody
\* will receive, or inside a Check that never returns.
Exited(gr) == gr.outer = "exited" /\ gr.inner = "exited"
Leaked(gr) == gr.outer = "exited" /\ gr.inner = "sending"
Hung(gr) == gr.outer = "exited" /\ gr.inner = "running" /\ Behaviour[gr.check].hangs
Settled(gr) == Exited(gr) \/ Leaked(gr) \/ Hung(gr)

\* The goroutines of k become rec.  Goroutines that have settled are kept
\* as a count only.
SetG(k, rec) ==
    /\ g' = IF Settled(rec) THEN MapDrop(g, {k}) ELSE [g EXCEPT ![k] = rec]
    /\ leaked' = IF Leaked(rec) THEN leaked + 1 ELSE leaked
    /\ hung' = IF Hung(rec) THEN hung + 1 ELSE hung

\* faulty variant: an inner goroutine whose check goroutine has gone sends its result
\* on a completion channel shared by the rounds instead of its own done
CheckReturnsShared(k) ==
    /\ ~panicked
    /\ k \in DOMAIN g
    /\ g[k].inner = "running"
    /\ ~Behaviour[g[k].check].hangs
    /\ g[k].rem = 0
    /\ IF g[k].outer = "exited" /\
          (\E c \in DOMAIN chans : ~chans[c].closed /\ Len(chans[c].buf) < chans[c].cap)
       THEN LET c == CHOOSE c \in DOMAIN chans :
                        ~chans[c].closed /\ Len(chans[c].buf) < chans[c].cap
            IN  /\ chans' = [chans EXCEPT ![c].buf =
                                 Append(@, [name |-> k[2], Status |-> "CHECKED",
                                            Error |-> g[k].ret,
                                            ResponseTime |-> 0])]
                /\ g' = [x \in (DOMAIN g) \ {k} |-> g[x]]
                /\ UNCHANGED << leaked, hung >>
       ELSE /\ g' = IF g[k].outer = "exited"
                    THEN [x \in (DOMAIN g) \ {k} |-> g[x]]
                    ELSE [g EXCEPT ![k].inner = "sending"]
            /\ leaked' = IF g[k].outer = "exited" THEN leaked + 1 ELSE leaked
            /\ UNCHANGED << hung, chans >>
    /\ UNCHANGED << otherVars, ncalls, checkers, isShutdown, timeout, mutex, callerVars, nrounds,
                    panicked >>

\* c.Check() returns in the inner goroutine, which then blocks on the
\* unbuffered `done <- ...` until the check goroutine receives.
CheckReturns(k) ==
    /\ ~panicked
    /\ k \in DOMAIN g
    /\ g[k].inner = "running"
    /\ ~Behaviour[g[k].check].hangs
    /\ g[k].rem = 0
    /\ SetG(k, [g[k] EXCEPT !.inner = "sending"])
    /\ UNCHANGED << otherVars, ncalls, checkers, isShutdown, timeout, mutex, callerVars, nrounds,
                    chans, panicked >>

\* the channel a check goroutine of round r sends on: the ch it was given
ChanOf(r) == r

\* ch <- m by a goroutine: a closed channel panics, a full one blocks
ChanSend(c, m) == [c EXCEPT !.buf = Append(@, m)]

CanSend(c) == c.closed \/ Len(c.buf) < c.cap

\* The select of check has chosen and built m; the goroutine sends it on ch
\* and returns.
Send(k, rec, m) ==
    /\ CanSend(chans[ChanOf(k[1])])
    /\ IF chans[ChanOf(k[1])].closed
       THEN /\ panicked' = TRUE
            /\ UNCHANGED << chans, g, leaked, hung >>
       ELSE /\ chans' = [chans EXCEPT ![ChanOf(k[1])] = ChanSend(@, m)]
            /\ SetG(k, [rec EXCEPT !.outer = "exited", !.timer = 0])
            /\ UNCHANGED panicked

\* select case r := <-done: the inner goroutine's send completes and it
\* exits; ch <- CheckerResult{CHECKED}
SelectDone(k) ==
    /\ ~panicked
    /\ k \in DOMAIN g
    /\ g[k].outer = "select"
    /\ g[k].inner = "sending"
    /\ Send(k, [g[k] EXCEPT !.inner = "exited"],
            CheckedResult(k[2], g[k].ret, Since(g[k].timer)))
    /\ UNCHANGED << otherVars, ncalls, checkers, isShutdown, timeout, mutex, callerVars, nrounds >>

\* select case <-time.After(timeout): ch <- CheckerResult{TIMEOUT}
SelectTimeout(k) ==
    /\ ~panicked
    /\ k \in DOMAIN g
    /\ g[k].outer = "select"
    /\ g[k].timer = 0
    /\ Send(k, g[k], TimeoutResult(k[2], Since(g[k].timer)))
    /\ UNCHANGED << otherVars, ncalls, checkers, isShutdown, timeout, mutex, callerVars, nrounds >>

\* ------------------------------------------------------------- GetStatus
\* the *Status GetStatus builds once checkersAsync has returned
Status(res) == [valid |-> TRUE, IsShuttingDown |-> isShutdown, HealthCheckers |-> res]

\* faulty variant: a checker that was invoked before is not invoked again
InvokeOnce(nc, cs) ==
    [c \in DOMAIN nc |-> IF nc[c] > 0 THEN nc[c]
                          ELSE nc[c] + Cardinality({n \in DOMAIN cs : cs[n] = c})]

\* the Check calls the goroutines of a round make, as the checkers count them
Invoke(nc, cs) ==
    [c \in DOMAIN nc |-> nc[c] + Cardinality({n \in DOMAIN cs : cs[n] = c})]

\* make(chan CheckerResult, numCheckers)
MakeChan(numCheckers) == [buf |-> << >>, closed |-> FALSE, cap |-> numCheckers]

\* faulty variant: an empty registry counts as one checker
NumCheckersOrOne(cs) == IF DOMAIN cs = {} THEN 1 ELSE Cardinality(DOMAIN cs)

\* len(h.checkers)
NumCheckers(cs) == Cardinality(DOMAIN cs)

\* faulty variant: GetStatus does not keep the mutex over its round
LockedByNoOne(p) == NoOne

\* h.mutex.Lock() by p with the Unlock deferred: the holder of the mutex
\* until p's call returns
LockedBy(p) == p

\* Lock, then checkersAsync up to its receive loop.  With no checker the
\* call returns the empty mapping at once and unlocks.
GetStatusBegin(p) ==
    /\ ~panicked
    /\ pc[p] = "lock"
    /\ op[p].kind = "GetStatus"
    /\ mutex = NoOne
    /\ snap' = [snap EXCEPT ![p] = checkers]
    /\ IF NumCheckers(checkers) = 0
       THEN /\ returned' = [returned EXCEPT ![p] = Status(EmptyMap)]
            /\ pc' = [pc EXCEPT ![p] = "idle"]
            /\ op' = [op EXCEPT ![p] = NoOp]
            /\ UNCHANGED << mutex, rid, results, i, elapsed, roundVars, ncalls >>
       ELSE /\ nrounds < MaxRounds
            /\ nrounds' = nrounds + 1
            /\ mutex' = LockedBy(p)
            /\ rid' = [rid EXCEPT ![p] = nrounds + 1]
            /\ chans' = MapStore(chans, nrounds + 1, MakeChan(NumCheckers(checkers)))
            /\ g' = g @@ Spawn(nrounds + 1, checkers)
            /\ ncalls' = Invoke(ncalls, checkers)
            /\ UNCHANGED << leaked, hung >>
            /\ results' = [results EXCEPT ![p] = EmptyMap]
            /\ i' = [i EXCEPT ![p] = NumCheckers(checkers)]
            /\ elapsed' = [elapsed EXCEPT ![p] = 0]
            /\ pc' = [pc EXCEPT ![p] = "collect"]
            /\ UNCHANGED << op, returned >>
    /\ UNCHANGED << otherVars, checkers, isShutdown, timeout, panicked >>

\* faulty variant: the comparison that decides the close is wrong, the channel is
\* never closed
LastResultNever(left) == left < 0

\* faulty variant: the channel is closed when one result is still to come
LastResultEarly(left) == left <= 1

\* if i == 0: the result just received was the last one
LastResult(left) == left = 0

\* for r := range ch { results[r.name] = r; i = i - 1; if i == 0 { close(ch) } }
Collect(p) ==
    /\ ~panicked
    /\ pc[p] = "collect"
    /\ Len(chans[rid[p]].buf) > 0
    /\ LET r == Head(chans[rid[p]].buf) IN
       /\ results' = [results EXCEPT ![p] = MapStore(@, r.name, r)]
       /\ i' = [i EXCEPT ![p] = @ - 1]
       /\ IF LastResult(i[p] - 1)
          THEN IF chans[rid[p]].closed
               THEN /\ panicked' = TRUE
                    /\ chans' = [chans EXCEPT ![rid[p]].buf = Tail(@)]
               ELSE /\ chans' = [chans EXCEPT ![rid[p]].buf = Tail(@),
                                              ![rid[p]].closed = TRUE]
                    /\ UNCHANGED panicked
          ELSE /\ chans' = [chans EXCEPT ![rid[p]].buf = Tail(@)]
               /\ UNCHANGED panicked
    /\ UNCHANGED << otherVars, ncalls, checkers, isShutdown, timeout, mutex, pc, op, rid, elapsed,
                    returned, snap, nrounds, g, leaked, hung >>

\* The range loop ends on the closed, drained channel; checkersAsync returns
\* results, GetStatus builds the Status and the deferred Unlock runs.  The
\* locals of the call and its channel are gone with it.
GetStatusReturn(p) ==
    /\ ~panicked
    /\ pc[p] = "collect"
    /\ chans[rid[p]].closed
    /\ Len(chans[rid[p]].buf) = 0
    /\ returned' = [returned EXCEPT ![p] = Status(results[p])]
    /\ mutex' = NoOne
    /\ pc' = [pc EXCEPT ![p] = "idle"]
    /\ op' = [op EXCEPT ![p] = NoOp]
    /\ rid' = [rid EXCEPT ![p] = 0]
    /\ results' = [results EXCEPT ![p] = EmptyMap]
    /\ i' = [i EXCEPT ![p] = 0]
    /\ elapsed' = [elapsed EXCEPT ![p] = 0]
    /\ chans' = MapDrop(chans, {rid[p]})
    /\ UNCHANGED << otherVars, ncalls, checkers, isShutdown, timeout, snap, nrounds, g, leaked, hung,
                    panicked >>

\* ------------------------------------------------------------------ time
\* some goroutine can take a step without waiting
Urgent ==
    \/ \E k \in DOMAIN g :
          \/ /\ g[k].inner = "running"
             /\ ~Behaviour[g[k].check].hangs
             /\ g[k].rem = 0
          \/ /\ g[k].outer = "select"
             /\ (g[k].inner = "sending" \/ g[k].timer = 0)
             /\ CanSend(chans[ChanOf(k[1])])
    \/ \E p \in Callers :
          /\ pc[p] = "collect"
          /\ (Len(chans[rid[p]].buf) > 0 \/ chans[rid[p]].closed)

\* a pending timer or a Check that is asleep
Waiting(gr) ==
    \/ gr.outer = "select" /\ gr.timer > 0
    \/ gr.inner = "running" /\ ~Behaviour[gr.check].hangs /\ gr.rem > 0

TickG(gr) ==
    [gr EXCEPT !.timer = IF gr.outer = "select" /\ @ > 0 THEN @ - 1 ELSE @,
               !.rem = IF gr.inner = "running" /\ @ > 0 THEN @ - 1 ELSE @]

\* one unit of time passes
Tick ==
    /\ ~panicked
    /\ ~Urgent
    /\ \E k \in DOMAIN g : Waiting(g[k])
    /\ g' = [k \in DOMAIN g |-> TickG(g[k])]
    /\ elapsed' = [p \in Callers |-> IF InRound(p) THEN elapsed[p] + 1 ELSE elapsed[p]]
    /\ UNCHANGED << otherVars, ncalls, checkers, isShutdown, timeout, mutex, pc, op, rid, results, i,
                    returned, snap, nrounds, chans, leaked, hung, panicked >>

\* ------------------------------------------------------ the specifications
\* the aggregation round: GetStatus, its check goroutines and the clock
Round ==
    \/ \E p \in Requesters : CallGetStatus(p)
    \/ \E p \in Callers : GetStatusBegin(p)
    \/ \E p \in Callers : Collect(p)
    \/ \E p \in Callers : GetStatusReturn(p)
    \/ \E k \in DOMAIN g : CheckReturns(k)
    \/ \E k \in DOMAIN g : SelectDone(k)
    \/ \E k \in DOMAIN g : SelectTimeout(k)
    \/ Tick

\* Registration at any time, concurrently with status requests.
Next ==
    \/ \E p \in Registrars : \E n \in RegNames : \E c \in RegCheckers :
          CallRegisterChecker(p, n, c)
    \/ \E p \in Callers : RegisterChecker(p)
    \/ Round

Spec == Init /\ [][Next]_vars

\* The Go scheduler runs every runnable goroutine and timers fire: each step
\* of the round that stays enabled is eventually taken, and time passes.
\* Nothing is assumed of the callers or of a Check that never returns.
Fairness ==
    /\ \A p \in Callers : WF_vars(Collect(p)) /\ WF_vars(GetStatusReturn(p))
    /\ WF_vars(\E k \in DOMAIN g : CheckReturns(k))
    /\ WF_vars(\E k \in DOMAIN g : SelectDone(k))
    /\ WF_vars(\E k \in DOMAIN g : SelectTimeout(k))
    /\ WF_vars(Tick)

\* every registry the registrations of Spec can build
Registries ==
    UNION { [ns -> RegCheckers] : ns \in SUBSET RegNames }

\* an instance after any number of registrations, then status requests
InitRegistered ==
    /\ checkers \in Registries
    /\ isShutdown = FALSE
    /\ newOpt \in TimeoutOpts
    /\ timeout = New(newOpt)
    /\ service = NewService
    /\ mutex = NoOne
    /\ pc = [p \in Callers |-> "idle"]
    /\ op = [p \in Callers |-> NoOp]
    /\ rid = [p \in Callers |-> 0]
    /\ results = [p \in Callers |-> EmptyMap]
    /\ i = [p \in Callers |-> 0]
    /\ elapsed = [p \in Callers |-> 0]
    /\ returned = [p \in Callers |-> NoStatus]
    /\ snap = [p \in Callers |-> EmptyMap]
    /\ nrounds = 0
    /\ chans = EmptyMap
    /\ g = EmptyMap
    /\ leaked = 0
    /\ hung = 0
    /\ panicked = FALSE
    /\ http = [p \in Callers |-> NoRequest]
    /\ ncalls = [c \in Stateful |-> 0]
    /\ after = [p \in Callers |-> 0]
    /\ mem = NoMem

LiveSpec == InitRegistered /\ [][Round]_vars /\ Fairness

\* TestMultipleCheckers: New with CheckersTimeout: time.Second * 1, four
\* checkers registered, then status requests.
MixedCheckers ==
    [ checker1 |-> "m0", checker2 |-> "m300", checker3 |-> "m5000",
      checker4 |-> "e500" ]

\* the same with one checker replaced by one that fails at once or never
\* returns
MixedRegistries ==
    {MixedCheckers} \cup
    { [MixedCheckers EXCEPT ![n] = c] : n \in DOMAIN MixedCheckers, c \in {"e0", "hang"} }

InitMixed ==
    /\ checkers \in MixedRegistries
    /\ isShutdown = FALSE
    /\ newOpt = Second
    /\ timeout = New(newOpt)
    /\ service = NewService
    /\ mutex = NoOne
    /\ pc = [p \in Callers |-> "idle"]
    /\ op = [p \in Callers |-> NoOp]
    /\ rid = [p \in Callers |-> 0]
    /\ results = [p \in Callers |-> EmptyMap]
    /\ i = [p \in Callers |-> 0]
    /\ elapsed = [p \in Callers |-> 0]
    /\ returned = [p \in Callers |-> NoStatus]
    /\ snap = [p \in Callers |-> EmptyMap]
    /\ nrounds = 0
    /\ chans = EmptyMap
    /\ g = EmptyMap
    /\ leaked = 0
    /\ hung = 0
    /\ panicked = FALSE
    /\ http = [p \in Callers |-> NoRequest]
    /\ ncalls = [c \in Stateful |-> 0]
    /\ after = [p \in Callers |-> 0]
    /\ mem = NoMem

SpecMixed == InitMixed /\ [][Round]_vars

\* registries with the recovering checker, alone or next to another one
FreshRegistries ==
    { [checker1 |-> "heal"] } \cup
    { [checker1 |-> "heal", checker2 |-> c] : c \in {"m0", "e500", "hang"} }

\* an instance with the recovering checker registered, then status requests
InitFresh ==
    /\ checkers \in FreshRegistries
    /\ isShutdown = FALSE
    /\ newOpt \in TimeoutOpts
    /\ timeout = New(newOpt)
    /\ service = NewService
    /\ mutex = NoOne
    /\ pc = [p \in Callers |-> "idle"]
    /\ op = [p \in Callers |-> NoOp]
    /\ rid = [p \in Callers |-> 0]
    /\ results = [p \in Callers |-> EmptyMap]
    /\ i = [p \in Callers |-> 0]
    /\ elapsed = [p \in Callers |-> 0]
    /\ returned = [p \in Callers |-> NoStatus]
    /\ snap = [p \in Callers |-> EmptyMap]
    /\ nrounds = 0
    /\ chans = EmptyMap
    /\ g = EmptyMap
    /\ leaked = 0
    /\ hung = 0
    /\ panicked = FALSE
    /\ http = [p \in Callers |-> NoRequest]
    /\ ncalls = [c \in Stateful |-> 0]
    /\ after = [p \in Callers |-> 0]
    /\ mem = NoMem

SpecFresh == InitFresh /\ [][Round]_vars

\* -------------------------------------- checkersAsync with a select loop
\* The earlier checkersAsync: the goroutines send Check's result on ch
\* themselves, and the caller receives in a loop whose select has a
\* time.After case; both ways out of the loop close ch.

\* go func(name, c) { ch <- checkerResult{name, c.Check()} }: the goroutine is
\* inside Check
GoSend(c) ==
    [outer |-> "direct", timer |-> 0, inner |-> "running",
     rem |-> BehaviourAt(c, Calls(c)).sleepTime, check |-> c,
     ret |-> BehaviourAt(c, Calls(c)).err]

LoopSpawn(r, cs) == [k \in {r} \X DOMAIN cs |-> GoSend(cs[k[2]])]

\* checkerResult{name: name, err: c.Check()}
checkerResult(name, err) == [name |-> name, err |-> err]

\* results[r.name] = r.err.Error(), or "OK"
ResultText(err) == IF err # NoErr THEN err ELSE "OK"

\* results[k] = "NOT OK - Timeout" for every k without a result
FillTimeouts(res, cs) ==
    [n \in DOMAIN cs |-> IF n \in DOMAIN res THEN res[n] ELSE "NOT OK - Timeout"]

\* Lock, then checkersAsync up to its loop: the channel is made, the
\* goroutines are started and the first time.After of the select is armed.
LoopBegin(p) ==
    /\ ~panicked
    /\ pc[p] = "lock"
    /\ op[p].kind = "GetStatus"
    /\ mutex = NoOne
    /\ snap' = [snap EXCEPT ![p] = checkers]
    /\ IF NumCheckers(checkers) = 0
       THEN /\ returned' = [returned EXCEPT ![p] = Status(EmptyMap)]
            /\ pc' = [pc EXCEPT ![p] = "idle"]
            /\ op' = [op EXCEPT ![p] = NoOp]
            /\ UNCHANGED << mutex, rid, results, i, elapsed, roundVars, ncalls,
                            after >>
       ELSE /\ nrounds < MaxRounds
            /\ nrounds' = nrounds + 1
            /\ mutex' = p
            /\ rid' = [rid EXCEPT ![p] = nrounds + 1]
            /\ chans' = MapStore(chans, nrounds + 1, MakeChan(NumCheckers(checkers)))
            /\ g' = g @@ LoopSpawn(nrounds + 1, checkers)
            /\ ncalls' = Invoke(ncalls, checkers)
            /\ UNCHANGED << leaked, hung >>
            /\ results' = [results EXCEPT ![p] = EmptyMap]
            /\ i' = [i EXCEPT ![p] = NumCheckers(checkers)]
            /\ elapsed' = [elapsed EXCEPT ![p] = 0]
            /\ after' = [after EXCEPT ![p] = TimeAfter(timeout)]
            /\ pc' = [pc EXCEPT ![p] = "loop"]
            /\ UNCHANGED << op, returned >>
    /\ UNCHANGED << checkers, isShutdown, timeout, panicked, newOpt, service, http, mem >>

\* Check has returned in a goroutine, which sends the result on ch and
\* exits; on a closed channel the send panics.
LoopSend(k) ==
    /\ ~panicked
    /\ k \in DOMAIN g
    /\ g[k].outer = "direct"
    /\ ~Behaviour[g[k].check].hangs
    /\ g[k].rem = 0
    /\ CanSend(chans[ChanOf(k[1])])
    /\ IF chans[ChanOf(k[1])].closed
       THEN /\ panicked' = TRUE
            /\ UNCHANGED << chans, g >>
       ELSE /\ chans' = [chans EXCEPT ![ChanOf(k[1])] =
                            ChanSend(@, checkerResult(k[2], g[k].ret))]
            /\ g' = MapDrop(g, {k})
            /\ UNCHANGED panicked
    /\ UNCHANGED << checkers, isShutdown, timeout, mutex, callerVars, nrounds,
                    leaked, hung, otherVars, ncalls >>

\* checkersAsync returns res: GetStatus builds the Status and unlocks
LoopReturn(p, res) ==
    /\ returned' = [returned EXCEPT ![p] = Status(res)]
    /\ mutex' = NoOne
    /\ pc' = [pc EXCEPT ![p] = "idle"]
    /\ op' = [op EXCEPT ![p] = NoOp]
    /\ rid' = [rid EXCEPT ![p] = 0]
    /\ results' = [results EXCEPT ![p] = EmptyMap]
    /\ i' = [i EXCEPT ![p] = 0]
    /\ elapsed' = [elapsed EXCEPT ![p] = 0]
    /\ after' = [after EXCEPT ![p] = 0]

\* case r := <-ch: the result is stored; after the last one ch is closed and
\* checkersAsync returns, otherwise the loop runs its select again with a
\* new time.After.
LoopReceive(p) ==
    /\ ~panicked
    /\ pc[p] = "loop"
    /\ Len(chans[rid[p]].buf) > 0
    /\ LET r == Head(chans[rid[p]].buf)
           res == MapStore(results[p], r.name, ResultText(r.err))
       IN  IF i[p] - 1 = 0
           THEN /\ chans' = [chans EXCEPT ![rid[p]].buf = Tail(@),
                                          ![rid[p]].closed = TRUE]
                /\ LoopReturn(p, res)
           ELSE /\ chans' = [chans EXCEPT ![rid[p]].buf = Tail(@)]
                /\ results' = [results EXCEPT ![p] = res]
                /\ i' = [i EXCEPT ![p] = @ - 1]
                /\ after' = [after EXCEPT ![p] = TimeAfter(timeout)]
                /\ UNCHANGED << returned, mutex, pc, op, rid, elapsed >>
    /\ UNCHANGED << checkers, isShutdown, timeout, snap, nrounds, g, leaked, hung,
                    panicked, newOpt, service, http, ncalls, mem >>

\* case <-time.After(timeout): the names without a result are filled in, ch
\* is closed and checkersAsync returns.
LoopTimeout(p) ==
    /\ ~panicked
    /\ pc[p] = "loop"
    /\ after[p] = 0
    /\ chans' = [chans EXCEPT ![rid[p]].closed = TRUE]
    /\ LoopReturn(p, FillTimeouts(results[p], checkers))
    /\ UNCHANGED << checkers, isShutdown, timeout, snap, nrounds, g, leaked, hung,
                    panicked, newOpt, service, http, ncalls, mem >>

\* a goroutine or a loop can take a step without waiting
LoopUrgent ==
    \/ \E k \in DOMAIN g :
          /\ g[k].outer = "direct"
          /\ ~Behaviour[g[k].check].hangs
          /\ g[k].rem = 0
    \/ \E p \in Callers :
          /\ pc[p] = "loop"
          /\ (Len(chans[rid[p]].buf) > 0 \/ after[p] = 0)

\* one unit of time passes for the Checks and the timer of the loop
LoopTick ==
    /\ ~panicked
    /\ ~LoopUrgent
    /\ \/ \E k \in DOMAIN g : Waiting(g[k])
       \/ \E p \in Callers : pc[p] = "loop"
    /\ g' = [k \in DOMAIN g |-> TickG(g[k])]
    /\ after' = [p \in Callers |-> IF pc[p] = "loop" THEN after[p] - 1 ELSE after[p]]
    /\ elapsed' = [p \in Callers |-> IF pc[p] = "loop" THEN elapsed[p] + 1
                                      ELSE elapsed[p]]
    /\ UNCHANGED << checkers, isShutdown, timeout, mutex, pc, op, rid, results, i,
                    returned, snap, nrounds, chans, leaked, hung, panicked,
                    newOpt, service, http, ncalls, mem >>

NextLoop ==
    \/ \E p \in Requesters : CallGetStatus(p)
    \/ \E p \in Callers : LoopBegin(p)
    \/ \E p \in Callers : LoopReceive(p)
    \/ \E p \in Callers : LoopTimeout(p)
    \/ \E k \in DOMAIN g : LoopSend(k)
    \/ LoopTick

\* an instance of the earlier package after any number of registrations,
\* then status requests
SpecLoop == InitRegistered /\ [][NextLoop]_vars

\* ------------------------------------------------------------- ServeHTTP
\* http.StatusOK, http.StatusNotFound, http.StatusServiceUnavailable
StatusOK == 200
StatusNotFound == 404
StatusServiceUnavailable == 503

\* the request methods a client sends
Methods == {"GET", "PUT"}

\* faulty variant: the method of the request is not looked at
IsGetAny(m) == TRUE

\* r.Method == http.MethodGet
IsGet(m) == m = "GET"

\* json.Marshal of an error value: nil is null, an error without exported
\* fields is the empty object
MarshalError(e) == IF e = NoErr THEN "null" ELSE "{}"

\* json.Marshal(status): the exported fields under their json names; the
\* unexported name of a CheckerResult is left out
Marshal(s) ==
    [written |-> TRUE,
     is_shutting_down |-> s.IsShuttingDown,
     health_checkers |->
        [n \in DOMAIN s.HealthCheckers |->
            [status |-> s.HealthCheckers[n].Status,
             error |-> MarshalError(s.HealthCheckers[n].Error),
             response_time |-> s.HealthCheckers[n].ResponseTime]]]

\* faulty variant: the flag is not looked at, the code stays http.StatusOK
StatusCodeOK(shut) == StatusOK

\* code := http.StatusOK; if h.isShutdown { code = http.StatusServiceUnavailable }
StatusCode(shut) == IF shut THEN StatusServiceUnavailable ELSE StatusOK

\* ServeHTTP up to the Lock of its GetStatus: a request that is not a GET is
\* answered 404 and the handler returns; a GET calls h.GetStatus().
ServeHTTP(p, m) ==
    /\ ~panicked
    /\ pc[p] = "idle"
    /\ http[p].stage = "none"
    /\ IF ~IsGet(m)
       THEN /\ http' = [http EXCEPT ![p] = [stage |-> "none", method |-> m,
                                            code |-> StatusNotFound, body |-> NoBody]]
            /\ UNCHANGED << pc, op, returned, snap >>
       ELSE /\ http' = [http EXCEPT ![p] = [stage |-> "status", method |-> m,
                                            code |-> 0, body |-> NoBody]]
            /\ pc' = [pc EXCEPT ![p] = "lock"]
            /\ op' = [op EXCEPT ![p] = [kind |-> "GetStatus"]]
            /\ returned' = [returned EXCEPT ![p] = NoStatus]
            /\ snap' = [snap EXCEPT ![p] = EmptyMap]
    /\ UNCHANGED << checkers, isShutdown, timeout, mutex, rid, results, i, elapsed,
                    roundVars, panicked, newOpt, service, ncalls, after, mem >>

\* the handler is back from GetStatus and has not read h.isShutdown yet
AtShutdownRead(p) == http[p].stage = "status" /\ pc[p] = "idle"

\* GetStatus has returned: json.Marshal(status), the read of h.isShutdown
\* that picks the code, WriteHeader(code) and Write(bytes).
ServeHTTPRespond(p) ==
    /\ ~panicked
    /\ AtShutdownRead(p)
    /\ http' = [http EXCEPT ![p] = [stage |-> "none", method |-> http[p].method,
                                    code |-> StatusCode(isShutdown),
                                    body |-> Marshal(returned[p])]]
    /\ UNCHANGED << checkers, isShutdown, timeout, mutex, callerVars, roundVars,
                    panicked, newOpt, service, ncalls, after, mem >>

\* the registries of the HTTP tests (none, one failing checker) and one of
\* two checkers
ServeRegistries ==
    { EmptyMap, [checker1 |-> "e0"], [checker1 |-> "m0", checker2 |-> "e500"] }

ServeCheckers == {"m0", "e0"}

InitServe ==
    /\ checkers \in ServeRegistries
    /\ isShutdown = FALSE
    /\ newOpt \in TimeoutOpts
    /\ timeout = New(newOpt)
    /\ service = NewService
    /\ mutex = NoOne
    /\ pc = [p \in Callers |-> "idle"]
    /\ op = [p \in Callers |-> NoOp]
    /\ rid = [p \in Callers |-> 0]
    /\ results = [p \in Callers |-> EmptyMap]
    /\ i = [p \in Callers |-> 0]
    /\ elapsed = [p \in Callers |-> 0]
    /\ returned = [p \in Callers |-> NoStatus]
    /\ snap = [p \in Callers |-> EmptyMap]
    /\ nrounds = 0
    /\ chans = EmptyMap
    /\ g = EmptyMap
    /\ leaked = 0
    /\ hung = 0
    /\ panicked = FALSE
    /\ http = [p \in Callers |-> NoRequest]
    /\ ncalls = [c \in Stateful |-> 0]
    /\ after = [p \in Callers |-> 0]
    /\ mem = NoMem

\* The owning service registers, asks for the status and shuts down, while
\* the HTTP server runs the handler for the requests of a client.
NextServe ==
    \/ \E p \in Registrars : \E c \in ServeCheckers :
          CallRegisterChecker(p, "checker1", c)
    \/ \E p \in Registrars : CallShutdown(p)
    \/ \E p \in Registrars : CallGetStatus(p)
    \/ \E p \in Callers : RegisterChecker(p)
    \/ \E p \in Callers : Shutdown(p)
    \/ \E p \in Requesters : \E m \in Methods : ServeHTTP(p, m)
    \/ \E p \in Callers : ServeHTTPRespond(p)
    \/ \E p \in Callers : GetStatusBegin(p)
    \/ \E p \in Callers : Collect(p)
    \/ \E p \in Callers : GetStatusReturn(p)
    \/ \E k \in DOMAIN g : CheckReturns(k)
    \/ \E k \in DOMAIN g : SelectDone(k)
    \/ \E k \in DOMAIN g : SelectTimeout(k)
    \/ Tick

SpecServe == InitServe /\ [][NextServe]_vars

\* A new instance, on which the owner registers fast, failing and slow
\* checkers, asks for the status and shuts down while the handler serves.
NextFrame ==
    \/ \E p \in Registrars : CallRegisterChecker(p, "checker2", "e500")
    \/ NextServe

SpecFrame == Init /\ [][NextFrame]_vars

\* ------------------------------------------------------ diffMemoryStatus
\* the values of a uint64 / int64 of WordBits bits
Word == 2 ^ WordBits
MaxInt == (Word \div 2) - 1
MinInt == -(Word \div 2)

\* a - b on unsigned words: the difference wraps around
SubUint(a, b) == (a - b) % Word

\* int64(u): the same bits read as a signed word
ToInt(u) == IF u > MaxInt THEN u - Word ELSE u

MemoryStatus(heap, total, rss) ==
    [HeapAlloc |-> heap, TotalAlloc |-> total, ResidentSetSize |-> rss]

\* faulty variant: the differences are left unsigned
diffMemoryStatusUnsigned(current, initial) ==
    [HeapAlloc |-> SubUint(current.HeapAlloc, initial.HeapAlloc),
     TotalAlloc |-> SubUint(current.TotalAlloc, initial.TotalAlloc),
     ResidentSetSize |-> SubUint(current.ResidentSetSize, initial.ResidentSetSize)]

\* DiffMemoryStatus{ int64(current.X - initial.X) } for the three fields
diffMemoryStatus(current, initial) ==
    [HeapAlloc |-> ToInt(SubUint(current.HeapAlloc, initial.HeapAlloc)),
     TotalAlloc |-> ToInt(SubUint(current.TotalAlloc, initial.TotalAlloc)),
     ResidentSetSize |->
        ToInt(SubUint(current.ResidentSetSize, initial.ResidentSetSize))]

\* the values a field is drawn from: the ends of the unsigned range and both
\* sides of the sign bit
MemSamples == {0, 1, MaxInt, MaxInt + 1, Word - 1}

MemStatuses ==
    { MemoryStatus(h, t, r) : h \in MemSamples, t \in MemSamples, r \in MemSamples }

\* the pairs (current, initial) diffMemoryStatus is applied to; the pair of
\* TestNewDiffMemoryStatus is one of them
MemInputs ==
    { [read |-> TRUE, done |-> FALSE, current |-> c, initial |-> n] :
         c \in MemStatuses, n \in MemStatuses }
    \cup { [read |-> TRUE, done |-> FALSE, current |-> MemoryStatus(3, 5, 6),
            initial |-> MemoryStatus(1, 2, 3)] }

InitMem ==
    /\ checkers = EmptyMap
    /\ isShutdown = FALSE
    /\ newOpt = 0
    /\ timeout = New(newOpt)
    /\ service = NewService
    /\ mutex = NoOne
    /\ pc = [p \in Callers |-> "idle"]
    /\ op = [p \in Callers |-> NoOp]
    /\ rid = [p \in Callers |-> 0]
    /\ results = [p \in Callers |-> EmptyMap]
    /\ i = [p \in Callers |-> 0]
    /\ elapsed = [p \in Callers |-> 0]
    /\ returned = [p \in Callers |-> NoStatus]
    /\ snap = [p \in Callers |-> EmptyMap]
    /\ nrounds = 0
    /\ chans = EmptyMap
    /\ g = EmptyMap
    /\ leaked = 0
    /\ hung = 0
    /\ panicked = FALSE
    /\ http = [p \in Callers |-> NoRequest]
    /\ ncalls = [c \in Stateful |-> 0]
    /\ after = [p \in Callers |-> 0]
    /\ mem \in MemInputs

\* diff := diffMemoryStatus(current, initial)
DiffMemoryStatus ==
    /\ mem.read
    /\ ~mem.done
    /\ mem' = [read |-> TRUE, done |-> TRUE, current |-> mem.current,
               initial |-> mem.initial,
               diff |-> diffMemoryStatus(mem.current, mem.initial)]
    /\ UNCHANGED << checkers, isShutdown, timeout, mutex, callerVars, roundVars,
                    panicked, newOpt, service, http, ncalls, after >>

SpecMem == InitMem /\ [][DiffMemoryStatus]_vars

\* ------------------------------------------------------------ the claims
\* the health_checkers mapping a caller's GetStatus returned (empty before)
HC(p) == IF returned[p].valid THEN returned[p].HealthCheckers ELSE EmptyMap

\* Check of checker c returns strictly before / has not returned at the timeout
ReturnsInTime(c) == ~Behaviour[c].hangs /\ Behaviour[c].sleepTime < timeout
ReturnsLate(c) == Behaviour[c].hangs \/ Behaviour[c].sleepTime > timeout

\* C1: the mapping GetStatus returns has exactly the names registered when
\* the round started as its keys, each entry under its own name.
C1_KeySet ==
    \A p \in Callers : returned[p].valid =>
        /\ DOMAIN HC(p) = DOMAIN snap[p]
        /\ \A n \in DOMAIN HC(p) : HC(p)[n].name = n

\* a returned mapping of two checkers, one hanging and one failing
C1_Witness ==
    \E p \in Callers : \E n, m \in DOMAIN snap[p] :
        /\ returned[p].valid
        /\ snap[p][n] = "hang"
        /\ Behaviour[snap[p][m]].err # NoErr
        /\ {n, m} \subseteq DOMAIN HC(p)

\* C3: a checker whose Check returns before the timeout is reported CHECKED
\* with the value Check returned as Error.
C3_CheckedInTime ==
    \A p \in Callers : returned[p].valid =>
        \A n \in DOMAIN HC(p) \cap DOMAIN snap[p] :
            ReturnsInTime(snap[p][n]) =>
                /\ HC(p)[n].Status = "CHECKED"
                /\ HC(p)[n].Error = Behaviour[snap[p][n]].err

\* a failing checker reported CHECKED with its error, next to a successful one
C3_Witness ==
    \E p \in Callers : \E n, m \in DOMAIN HC(p) \cap DOMAIN snap[p] :
        /\ returned[p].valid
        /\ ReturnsInTime(snap[p][n]) /\ ReturnsInTime(snap[p][m])
        /\ HC(p)[n].Status = "CHECKED" /\ HC(p)[n].Error = "Error connections to db"
        /\ HC(p)[m].Status = "CHECKED" /\ HC(p)[m].Error = NoErr

\* C4: a checker that has not returned when the timeout elapses is reported
\* TIMEOUT with no error, and only a checker that had not returned before
\* the timeout is reported TIMEOUT.
C4_Timeout ==
    \A p \in Callers : returned[p].valid =>
        \A n \in DOMAIN HC(p) \cap DOMAIN snap[p] :
            /\ ReturnsLate(snap[p][n]) =>
                  HC(p)[n].Status = "TIMEOUT" /\ HC(p)[n].Error = NoErr
            /\ HC(p)[n].Status = "TIMEOUT" =>
                  HC(p)[n].Error = NoErr /\ ~ReturnsInTime(snap[p][n])

\* a slow failing checker and a hanging one, both reported TIMEOUT
C4_Witness ==
    \E p \in Callers : \E n, m \in DOMAIN HC(p) \cap DOMAIN snap[p] :
        /\ returned[p].valid
        /\ snap[p][n] = "hang" /\ HC(p)[n].Status = "TIMEOUT"
        /\ Behaviour[snap[p][m]].err # NoErr /\ ReturnsLate(snap[p][m])
        /\ HC(p)[m].Status = "TIMEOUT"

\* what a checker's own delay and return value make of it
Outcome(c) ==
    IF ReturnsLate(c)
    THEN [Status |-> "TIMEOUT", Error |-> NoErr]
    ELSE [Status |-> "CHECKED", Error |-> Behaviour[c].err]

\* C5: in the mixed scenario the statuses are CHECKED, CHECKED, TIMEOUT,
\* CHECKED and checker4 carries its error; in every round the status and
\* error of a checker are those of its own delay and return value, whatever
\* the other checkers are.
C5_Isolation ==
    \A p \in Callers : returned[p].valid =>
        /\ DOMAIN HC(p) = DOMAIN snap[p]
        /\ \A n \in DOMAIN HC(p) \cap DOMAIN snap[p] :
              Behaviour[snap[p][n]].sleepTime # timeout =>
                 /\ HC(p)[n].Status = Outcome(snap[p][n]).Status
                 /\ HC(p)[n].Error = Outcome(snap[p][n]).Error
        /\ snap[p] = MixedCheckers =>
              /\ << HC(p)["checker1"].Status, HC(p)["checker2"].Status,
                    HC(p)["checker3"].Status, HC(p)["checker4"].Status >>
                   = << "CHECKED", "CHECKED", "TIMEOUT", "CHECKED" >>
              /\ HC(p)["checker4"].Error = "Error connections to db"

\* the test's round has returned, and so has one in which checker1 hangs
C5_Witness ==
    \E p \in Callers :
        /\ returned[p].valid
        /\ snap[p] = [MixedCheckers EXCEPT !["checker1"] = "hang"]
        /\ HC(p)["checker1"].Status = "TIMEOUT"
        /\ HC(p)["checker4"].Status = "CHECKED"

\* C6: a round in flight has lasted at most one timeout, so GetStatus
\* returns no later than one timeout after the round started.
C6_Bounded ==
    \A p \in Callers : InRound(p) => elapsed[p] <= timeout

\* a round at its deadline with a checker still inside Check
C6_Witness ==
    \E p \in Callers : \E k \in DOMAIN g :
        /\ InRound(p) /\ elapsed[p] = timeout
        /\ k[1] = rid[p] /\ g[k].inner = "running"
        /\ Len(chans[rid[p]].buf) > 0

\* C2: under fair scheduling every round in flight completes: GetStatus
\* returns a Status and the mutex is released, whatever the checkers do.
C2_Returns ==
    \A p \in Callers :
        InRound(p) ~> (pc[p] = "idle" /\ returned[p].valid /\ mutex # p)

\* GetStatus has returned an all-TIMEOUT mapping of two hanging checkers
C2_Witness ==
    \E p \in Callers :
        /\ returned[p].valid /\ mutex = NoOne
        /\ Cardinality(DOMAIN HC(p)) = 2
        /\ \A n \in DOMAIN HC(p) :
              snap[p][n] = "hang" /\ HC(p)[n].Status = "TIMEOUT"

\* a goroutine of a round that has concluded: the round's channel is closed
\* or gone
Late(k) == k[1] \notin DOMAIN chans \/ chans[k[1]].closed

\* C7: a step in which a goroutine of a concluded round moves on (its Check
\* returns late) changes no returned mapping, no round's results and no
\* completion channel.
C7_LateDiscarded ==
    [][ \A k \in DOMAIN g :
          (Late(k) /\ (k \notin DOMAIN g' \/ g'[k].inner # g[k].inner)) =>
              /\ returned' = returned
              /\ results' = results
              /\ i' = i
              /\ chans' = chans ]_vars

\* a slow failing checker was reported TIMEOUT, the caller still holds that
\* mapping, and the checker's Check has since returned
C7_Witness ==
    \E p \in Callers : \E n \in DOMAIN HC(p) :
        /\ returned[p].valid
        /\ snap[p][n] = "e500" /\ HC(p)[n].Status = "TIMEOUT"
        /\ \A k \in DOMAIN g : g[k].check # "e500"
        /\ leaked >= 1

\* C8: no goroutine whose Check has returned stays blocked for ever.
C8_NoLeak == leaked = 0

\* C9: while a round is in flight the registry is what it was when the round
\* started, and the round's goroutines run exactly the instances registered
\* then; a registration issued meanwhile waits for the mutex.
C9_RoundIsolated ==
    \A p \in Callers : InRound(p) =>
        /\ checkers = snap[p]
        /\ mutex = p
        /\ DOMAIN results[p] \subseteq DOMAIN snap[p]
        /\ \A k \in DOMAIN g : k[1] = rid[p] =>
              k[2] \in DOMAIN snap[p] /\ g[k].check = snap[p][k[2]]

\* a round in flight while a registration that would change the registry
\* waits for the mutex
C9_Witness ==
    \E p, q \in Callers :
        /\ InRound(p) /\ DOMAIN results[p] # {}
        /\ pc[q] = "lock" /\ op[q].kind = "RegisterChecker"
        /\ op[q].name \in DOMAIN checkers
        /\ checkers[op[q].name] # op[q].check

\* C10: RegisterChecker(n, c) leaves exactly one entry for n, holding c, and
\* every other entry as it was; a round starts exactly one goroutine per
\* entry, running the checker the registry holds for it.
C10_Overwrite ==
    [][ \A p \in Callers :
          /\ (pc[p] = "lock" /\ op[p].kind = "RegisterChecker" /\ pc'[p] = "idle") =>
                /\ DOMAIN checkers' = DOMAIN checkers \cup {op[p].name}
                /\ checkers'[op[p].name] = op[p].check
                /\ \A n \in DOMAIN checkers \ {op[p].name} : checkers'[n] = checkers[n]
          /\ (pc[p] = "lock" /\ pc'[p] = "collect") =>
                /\ (DOMAIN g') \ (DOMAIN g) = {rid'[p]} \X DOMAIN checkers
                /\ \A n \in DOMAIN checkers :
                      g'[<< rid'[p], n >>].check = checkers[n] ]_vars

\* a name was registered with a slow checker, invoked in an earlier round and
\* still inside Check, then registered again: the round in flight runs the
\* new checker
C10_Witness ==
    \E p \in Callers : \E k, j \in DOMAIN g :
        /\ InRound(p)
        /\ j[1] = rid[p] /\ k[1] < j[1] /\ k[2] = j[2]
        /\ g[k].check # g[j].check
        /\ g[j].check = checkers[j[2]]

\* C11: Shutdown is terminal and idempotent: the flag, once true, is true
\* after every step; every Status built from then on reports IsShuttingDown;
\* a Shutdown that finds the flag set changes nothing of the instance.
C11_ShutdownTerminal ==
    [][ /\ isShutdown => isShutdown'
        /\ \A p \in Callers :
              (isShutdown /\ ~returned[p].valid /\ returned'[p].valid) =>
                  returned'[p].IsShuttingDown
        /\ \A p \in Callers :
              (isShutdown /\ pc[p] = "lock" /\ op[p].kind = "Shutdown"
                 /\ pc'[p] = "idle") =>
                  /\ isShutdown' = isShutdown
                  /\ checkers' = checkers
                  /\ timeout' = timeout
                  /\ mutex' = mutex
                  /\ returned' = returned ]_vars

\* after a shutdown a round of a non-empty registry has reported the flag to
\* the handler and a second Shutdown call is at the lock
C11_Witness ==
    \E p, q \in Callers :
        /\ isShutdown
        /\ pc[p] = "lock" /\ op[p].kind = "Shutdown"
        /\ returned[q].valid /\ returned[q].IsShuttingDown
        /\ HC(q) # EmptyMap
        /\ nrounds >= 2

\* the body of a response as a client decodes it: its checker entries
Entries(body) == IF body.written THEN body.health_checkers ELSE EmptyMap

C13_FailureIs503 ==
    \A p \in Callers :
        (/\ http[p].stage = "none" /\ http[p].method = "GET"
         /\ returned[p].valid
         /\ \E n \in DOMAIN HC(p) : HC(p)[n].Error # NoErr) =>
            http[p].code = 503

\* C14: a request that is not a GET is answered 404 in the step that takes
\* it, with no body, and that step starts no round, invokes no checker and
\* leaves the mutex, the callers and the instance as they are.
C14_NotFound ==
    [][ \A p \in Callers :
          (http'[p] # http[p] /\ http'[p].method # "GET") =>
              /\ http'[p].code = 404
              /\ http'[p].stage = "none"
              /\ ~http'[p].body.written
              /\ mutex' = mutex
              /\ << pc, op, rid, results, i, elapsed, returned, snap >>'
                    = << pc, op, rid, results, i, elapsed, returned, snap >>
              /\ << nrounds, chans, g, leaked, hung >>'
                    = << nrounds, chans, g, leaked, hung >>
              /\ ncalls' = ncalls
              /\ << checkers, isShutdown, timeout >>'
                    = << checkers, isShutdown, timeout >> ]_vars

\* a PUT was answered 404 and the mutex is held by a round in flight after a
\* shutdown
C14_Witness ==
    \E p, q \in Callers :
        /\ http[p].method = "PUT" /\ http[p].code = 404 /\ http[p].stage = "none"
        /\ mutex = q /\ InRound(q)
        /\ isShutdown

\* C15: a GetStatus that finds the registry empty returns the empty mapping
\* in the step that takes the lock: no channel, goroutine or timer is made
\* and no time passes.
C15_EmptyAtOnce ==
    [][ \A p \in Callers :
          (/\ pc[p] = "lock" /\ op[p].kind = "GetStatus" /\ pc'[p] # "lock"
           /\ checkers = EmptyMap) =>
              /\ pc'[p] = "idle"
              /\ returned'[p].valid
              /\ returned'[p].HealthCheckers = EmptyMap
              /\ << nrounds, chans, g, leaked, hung >>'
                    = << nrounds, chans, g, leaked, hung >>
              /\ ncalls' = ncalls
              /\ elapsed' = elapsed
              /\ mutex' = mutex ]_vars

\* the handler got the empty mapping while no round was ever started, and
\* answered 200 with no checker in the body
C15_Witness ==
    \E p \in Callers :
        /\ returned[p].valid /\ returned[p].HealthCheckers = EmptyMap
        /\ nrounds = 0 /\ g = EmptyMap /\ chans = EmptyMap
        /\ http[p].code = 200 /\ http[p].body.written
        /\ Entries(http[p].body) = EmptyMap

\* C16: the flag is read in ServeHTTP only by a caller that holds the mutex:
\* the step that reads it is never taken while another caller holds the
\* mutex.
C16_FlagUnderLock ==
    [][ \A p \in Callers :
          (AtShutdownRead(p) /\ http'[p].stage = "none") =>
              mutex \in {NoOne, p} ]_vars

\* C17: the timeout of the instance is time.Second if New was given zero and
\* the given value otherwise, in every state; it is never zero and no timer
\* of a round runs longer.
C17_Timeout ==
    /\ timeout = (IF newOpt = 0 THEN Second ELSE newOpt)
    /\ timeout > 0
    /\ \A k \in DOMAIN g : g[k].timer <= timeout
    /\ \A p \in Callers : InRound(p) => elapsed[p] <= timeout

\* New was given zero; after a registration, a shutdown and an earlier round
\* a round is running with timers of one second
C17_Witness ==
    \E p \in Callers : \E k \in DOMAIN g :
        /\ newOpt = 0 /\ timeout = Second
        /\ isShutdown /\ nrounds >= 2
        /\ InRound(p) /\ k[1] = rid[p]
        /\ g[k].outer = "select" /\ g[k].timer > 0
        /\ elapsed[p] > 0

MemFields == {"HeapAlloc", "TotalAlloc", "ResidentSetSize"}

\* C18: each field of the difference is a signed word congruent to
\* current - initial, and is current - initial itself, negative when
\* current < initial, whenever that difference fits in a signed word.
C18_Diff ==
    (mem.read /\ mem.done) =>
        \A f \in MemFields :
            LET d == mem.current[f] - mem.initial[f] IN
            /\ mem.diff[f] \in MinInt..MaxInt
            /\ (mem.diff[f] - d) % Word = 0
            /\ (d \in MinInt..MaxInt) => mem.diff[f] = d

\* a difference computed with one field that shrank, one that grew and one
\* whose true difference does not fit in a signed word
C18_Witness ==
    /\ mem.read /\ mem.done
    /\ mem.current.HeapAlloc < mem.initial.HeapAlloc
    /\ mem.diff.HeapAlloc = mem.current.HeapAlloc - mem.initial.HeapAlloc
    /\ mem.diff.HeapAlloc < 0
    /\ mem.diff.TotalAlloc > 0
    /\ mem.current.ResidentSetSize - mem.initial.ResidentSetSize > MaxInt
    /\ mem.diff.ResidentSetSize < 0

\* C19: every round invokes the recovering checker exactly once, so it has
\* been invoked once per round started; the first round reports what its
\* first Check did (TIMEOUT under the short timeout, CHECKED with the error
\* under the long one) and every later round reports it CHECKED without
\* error, whatever the earlier round reported.
C19_Fresh ==
    /\ ncalls["heal"] = nrounds
    /\ \A k \in DOMAIN g : g[k].check = "heal" /\ k[1] >= 2 =>
           g[k].ret = NoErr /\ g[k].rem = 0
    /\ \A p \in Callers : returned[p].valid =>
          \A n \in DOMAIN HC(p) \cap DOMAIN snap[p] :
              snap[p][n] = "heal" =>
                 /\ nrounds = 1 /\ timeout < Behaviour["heal"].sleepTime =>
                       HC(p)[n].Status = "TIMEOUT" /\ HC(p)[n].Error = NoErr
                 /\ nrounds = 1 /\ timeout > Behaviour["heal"].sleepTime =>
                       /\ HC(p)[n].Status = "CHECKED"
                       /\ HC(p)[n].Error = Behaviour["heal"].err
                 /\ nrounds >= 2 =>
                       HC(p)[n].Status = "CHECKED" /\ HC(p)[n].Error = NoErr

\* the second round has reported the checker CHECKED without error after the
\* first round timed it out (its first Check still leaked a goroutine), next
\* to a checker that timed out again
C19_Witness ==
    \E p \in Callers :
        /\ returned[p].valid /\ nrounds = 2
        /\ timeout < Behaviour["heal"].sleepTime
        /\ leaked >= 2
        /\ snap[p]["checker1"] = "heal"
        /\ HC(p)["checker1"].Status = "CHECKED" /\ HC(p)["checker1"].Error = NoErr
        /\ HC(p)["checker2"].Status = "TIMEOUT"

\* C20: in the select-loop checkersAsync no goroutine sends on the
\* completion channel after it has been closed: no send panics.
C20_NoSendAfterClose == ~panicked

\* C21: in the select-loop checkersAsync a round in flight has lasted at
\* most one timeout, however many results it has received.
C21_RoundBudget ==
    \A p \in Callers : pc[p] = "loop" => elapsed[p] <= timeout

\* C22: a response with a body has status code 503 exactly when the body's
\* is_shutting_down is true.
C22_CodeAgreesBody ==
    \A p \in Callers :
        (http[p].stage = "none" /\ http[p].body.written) =>
            (http[p].code = 503 <=> http[p].body.is_shutting_down)

\* C23: at most one round is in flight; its caller holds the mutex; a step
\* taken while a round is in flight starts no other round, completes no
\* other caller's GetStatus, RegisterChecker or Shutdown and leaves the
\* registry and the shutdown flag as they are.
C23_OneRound ==
    [][ \A p \in Callers : InRound(p) =>
          /\ mutex = p
          /\ \A q \in Callers \ {p} : ~InRound(q) /\ ~InRound(q)'
          /\ \A q \in Callers \ {p} : pc[q] = "lock" => pc'[q] = "lock"
          /\ nrounds' = nrounds
          /\ checkers' = checkers
          /\ isShutdown' = isShutdown ]_vars

\* a round that has received a result is in flight while the other caller's
\* GetStatus waits for the mutex, after a shutdown
C23_Witness ==
    \E p, q \in Callers :
        /\ InRound(p) /\ DOMAIN results[p] # {}
        /\ pc[q] = "lock" /\ op[q].kind = "GetStatus"
        /\ isShutdown

\* a caller's call of the given kind completes in this step
Completes(p, kind) == pc[p] = "lock" /\ op[p].kind = kind /\ pc'[p] # "lock"

\* C24: the registry starts empty; no step changes the service name, the
\* start time or the timeout, or removes a name from the registry; the
\* registry changes only in a step completing RegisterChecker(name, c), and
\* then only in its entry for name; the flag changes only in a step
\* completing Shutdown; so GetStatus and ServeHTTP change nothing.
C24_Frame ==
    /\ checkers = EmptyMap
    /\ [][ /\ service' = service
           /\ timeout' = timeout
           /\ DOMAIN checkers \subseteq DOMAIN checkers'
           /\ checkers' # checkers =>
                 \E p \in Callers :
                    /\ Completes(p, "RegisterChecker")
                    /\ DOMAIN checkers' = DOMAIN checkers \cup {op[p].name}
                    /\ \A n \in DOMAIN checkers \ {op[p].name} :
                          checkers'[n] = checkers[n]
           /\ isShutdown' # isShutdown =>
                 \E p \in Callers : Completes(p, "Shutdown")
           /\ \A p \in Callers :
                 Completes(p, "RegisterChecker") => isShutdown' = isShutdown
           /\ \A p \in Callers :
                 Completes(p, "Shutdown") => checkers' = checkers ]_vars

\* both names are registered, checker1 with the failing checker, the
\* instance is shut down, a GetStatus has returned both entries to the owner
\* and the handler has answered a GET with both
C24_Witness ==
    \E p, q \in Callers :
        /\ p # q
        /\ DOMAIN checkers = {"checker1", "checker2"}
        /\ checkers["checker1"] = "e0"
        /\ isShutdown
        /\ returned[p].valid /\ DOMAIN HC(p) = {"checker1", "checker2"}
        /\ http[p].stage = "none" /\ http[p].method = ""
        /\ http[q].code = 503
        /\ DOMAIN Entries(http[q].body) = {"checker1", "checker2"}

\* the check goroutines of round r that have not sent their result yet
Pending(r) == { k \in DOMAIN g : k[1] = r /\ g[k].outer = "select" }

\* the names of the results waiting in a channel
Buffered(c) == { c.buf[j].name : j \in 1..Len(c.buf) }

\* C25: in a round of N checkers every name is, exactly once, either still
\* to be sent by its goroutine, waiting in the channel, or received, so
\* each goroutine sends one result and the channel never holds more than N;
\* a goroutine ready to send finds room; the channel is closed only when all
\* N results have been received, and no send or second close ever hits a
\* closed channel.
C25_OneResultEach ==
    /\ ~panicked
    /\ \A p \in Callers : InRound(p) =>
          LET c == chans[rid[p]]
              n == Cardinality(DOMAIN snap[p])
          IN  /\ c.cap = n
              /\ Len(c.buf) <= n
              /\ Cardinality(Buffered(c)) = Len(c.buf)
              /\ { k[2] : k \in Pending(rid[p]) } \cup Buffered(c)
                    \cup DOMAIN results[p] = DOMAIN snap[p]
              /\ Cardinality(Pending(rid[p])) + Len(c.buf)
                    + Cardinality(DOMAIN results[p]) = n
              /\ i[p] = n - Cardinality(DOMAIN results[p])
              /\ \A k \in Pending(rid[p]) : Len(c.buf) < c.cap
              /\ c.closed =>
                    /\ DOMAIN results[p] = DOMAIN snap[p]
                    /\ Len(c.buf) = 0
                    /\ Pending(rid[p]) = {}

\* the channel of a round of two checkers has been closed after a CHECKED
\* and a TIMEOUT result were received
C25_Witness ==
    \E p \in Callers : \E n, m \in DOMAIN results[p] :
        /\ InRound(p)
        /\ chans[rid[p]].closed
        /\ chans[rid[p]].cap = 2
        /\ results[p][n].Status = "CHECKED"
        /\ results[p][m].Status = "TIMEOUT"

TypeOK ==
    /\ mutex \in Callers \cup {NoOne}
    /\ isShutdown \in BOOLEAN
    /\ nrounds \in 0..MaxRounds
    /\ panicked \in BOOLEAN

====
